---- MODULE Spec2Model ----
(***************************************************************************)
(* Room session and state-synchronisation engine of the collaboration      *)
(* backend (multi-file / multi-note variant).  One Node.js process:        *)
(* socket.io connections, the in-memory registry roomUsers, the per-socket *)
(* closure variable currentRoom, and the MongoDB collection of Room        *)
(* documents.  Every handler runs synchronously up to its next `await`;    *)
(* a store call is executed by the store at some later moment and the      *)
(* handler's continuation runs at some moment after that.                  *)
(***************************************************************************)
EXTENDS Integers, Sequences, FiniteSets, TLC

(* ------------------------------ bounds -------------------------------- *)

\* number of socket connections ever opened
NumConns == 3

\* number of client events (join-room, mutations) issued in one behaviour
MaxEvents == 3

\* number of client events received by a room in use (SpecRoom)
MaxRoomEvents == 2

\* number of handlers that may be suspended at a store call at once
MaxTasks == 2

(* ------------------------- program constants -------------------------- *)

\* roomUsers.get(roomId).size >= 2
MaxUsers == 2

Conns == 1..NumConns

RoomKeys == {"r1", "r2"}

\* let currentRoom = null
NoRoom == "null"

\* a property the client left out of the payload
Undefined == "undefined"

\* the BSON null
Null == "null"

FileIds == {"default", "f1"}

NoteIds == {"default", "n1"}

Contents == {"x", "y"}

TaskIds == 1..MaxTasks

(* ----------------------------- documents ------------------------------ *)

DefaultFile ==
  [id |-> "default", name |-> "main.js", content |-> "welcome",
   language |-> "javascript"]

DefaultNote ==
  [id |-> "default", name |-> "Notes", content |-> "notes"]

\* Room.create({roomId, files: [...], notes: [...], activeFileId, activeNoteId});
\* createdAt and lastActivity take their schema default Date.now
NewRoom(t) ==
  [files |-> <<DefaultFile>>, notes |-> <<DefaultNote>>,
   activeFileId |-> "default", activeNoteId |-> "default",
   createdAt |-> t, lastActivity |-> t]

\* index of the first array element whose id is `id` (the element the
\* positional operator $ designates), 0 when the filter matches none
FirstIndex(items, id) ==
  IF \E i \in 1..Len(items) : items[i].id = id
  THEN CHOOSE i \in 1..Len(items) :
         /\ items[i].id = id
         /\ \A j \in 1..(i - 1) : items[j].id # id
  ELSE 0

\* { $push: { files: file }, $set: { activeFileId: file.id, lastActivity } }
PushFile(doc, file, t) ==
  [doc EXCEPT !.files = Append(@, file), !.activeFileId = file.id,
              !.lastActivity = t]

\* a file-update that writes the content only over the seed content, so
\* that the first content written stays
SetFileFieldsFirstWins(doc, data, t) ==
  LET i == FirstIndex(doc.files, data.fileId) IN
  IF i = 0 THEN doc
  ELSE [doc EXCEPT !.files[i].content =
                      IF data.content # Undefined /\ @ = DefaultFile.content
                      THEN data.content ELSE @,
                   !.files[i].language =
                      IF data.language # Undefined THEN data.language ELSE @,
                   !.lastActivity = t]

\* filter 'files.id': data.fileId; $set 'files.$.content', lastActivity and,
\* when data.language is truthy, 'files.$.language'; a key that is absent
\* from the $set the store receives leaves its field as it is
SetFileFields(doc, data, t) ==
  LET i == FirstIndex(doc.files, data.fileId) IN
  IF i = 0 THEN doc
  ELSE [doc EXCEPT !.files[i].content =
                      IF data.content # Undefined THEN data.content ELSE @,
                   !.files[i].language =
                      IF data.language # Undefined THEN data.language ELSE @,
                   !.lastActivity = t]

\* filter 'files.id': data.fileId; $set 'files.$.name', lastActivity
SetFileName(doc, data, t) ==
  LET i == FirstIndex(doc.files, data.fileId) IN
  IF i = 0 THEN doc
  ELSE [doc EXCEPT !.files[i].name = data.name, !.lastActivity = t]

\* { $pull: { files: { id: fileId } }, $set: { lastActivity } }: every
\* element with that id is removed, the others keep their order
PullFile(doc, fileId, t) ==
  LET keep(f) == f.id # fileId IN
  [doc EXCEPT !.files = SelectSeq(@, keep), !.lastActivity = t]

\* { $push: { notes: note }, $set: { activeNoteId: note.id, lastActivity } }
PushNote(doc, note, t) ==
  [doc EXCEPT !.notes = Append(@, note), !.activeNoteId = note.id,
              !.lastActivity = t]

\* filter 'notes.id': data.noteId; $set 'notes.$.content', lastActivity
SetNoteContent(doc, data, t) ==
  LET i == FirstIndex(doc.notes, data.noteId) IN
  IF i = 0 THEN doc
  ELSE [doc EXCEPT !.notes[i].content = data.content, !.lastActivity = t]

\* filter 'notes.id': data.noteId; $set 'notes.$.name', lastActivity
SetNoteName(doc, data, t) ==
  LET i == FirstIndex(doc.notes, data.noteId) IN
  IF i = 0 THEN doc
  ELSE [doc EXCEPT !.notes[i].name = data.name, !.lastActivity = t]

\* { $pull: { notes: { id: noteId } }, $set: { lastActivity } }
PullNote(doc, noteId, t) ==
  LET keep(n) == n.id # noteId IN
  [doc EXCEPT !.notes = SelectSeq(@, keep), !.lastActivity = t]

(* ------------------------------- state -------------------------------- *)

VARIABLES
  live,         \* live[c]: the socket of connection c is connected
  currentRoom,  \* the closure variable currentRoom of connection c
  roomUsers,    \* the Map roomId -> Set of socket ids
  ioRooms,      \* socket.io rooms: ioRooms[r] = sockets that did socket.join(r)
  db,           \* the Room collection: roomId -> document
  tasks,        \* handlers suspended at an await
  wire,         \* wire[c]: events emitted to connection c, oldest first
  now,          \* the clock read by new Date()
  nEvents,      \* number of client events received so far
  view,         \* view[c]: the files and notes the client of c displays
  touched       \* the item fields the edits sent so far were aimed at

vars == <<live, currentRoom, roomUsers, ioRooms, db, tasks, wire, now,
          nEvents, view, touched>>

Idle == [kind |-> "idle"]

NoView == [synced |-> FALSE]

\* the state of the process right after start-up, every connection open
\* and no event received yet
Init ==
  /\ live = [c \in Conns |-> TRUE]
  /\ currentRoom = [c \in Conns |-> NoRoom]
  /\ roomUsers = [r \in {} |-> {}]
  /\ ioRooms = [r \in RoomKeys |-> {}]
  /\ db = [r \in {} |-> {}]
  /\ tasks = [t \in TaskIds |-> Idle]
  /\ wire = [c \in Conns |-> <<>>]
  /\ now = 0
  /\ nEvents = 0
  /\ view = [c \in Conns |-> NoView]
  /\ touched = {}

(* ------------------------------ transport ----------------------------- *)

\* socket.emit(type, ...) on the socket of c: a closed socket drops it
Emit(w, c, msg) ==
  IF live[c] THEN [w EXCEPT ![c] = Append(@, msg)] ELSE w

\* the sockets socket.to(room) of connection c reaches
ToRoom(c, room) == ioRooms[room] \ {c}

\* emit to every socket of the set `to`
Broadcast(w, to, msg) ==
  [d \in Conns |-> IF d \in to THEN Append(w[d], msg) ELSE w[d]]

FreeTask == {t \in TaskIds : tasks[t].kind = "idle"}

\* the handler suspends at `await <store call>`: `task` carries its locals
Suspend(task) ==
  /\ FreeTask # {}
  /\ LET t == CHOOSE s \in FreeTask : \A u \in FreeTask : s <= u IN
     tasks' = [tasks EXCEPT ![t] = task]

AllIdle == \A t \in TaskIds : tasks[t].kind = "idle"

\* the handler of task t has returned (or its catch block has run)
Finish(t) == tasks' = [tasks EXCEPT ![t] = Idle]

(* ------------------------------ the store ----------------------------- *)

\* 24 * 60 * 60 * 1000 ms, in hours: the age at which the cleanup job
\* deletes a room
Retention == 24

\* lastActivity more than Retention + 1 hours in the past as well
ExpiredLater(doc, cutoff) == doc.lastActivity < cutoff - 1

\* the filter { lastActivity: { $lt: cutoff } } of the cleanup job
Expired(doc, cutoff) == doc.lastActivity < cutoff

\* what the collection holds after the store has executed request `req`
StoreApply(d, req) ==
  LET r == req.roomId IN
  CASE req.op = "findOne" -> d
    [] req.op = "create" ->
         IF r \in DOMAIN d THEN d
         ELSE [k \in DOMAIN d \cup {r} |-> IF k = r THEN req.doc ELSE d[k]]
    [] req.op = "save" ->
         IF r \in DOMAIN d
         THEN [d EXCEPT ![r].lastActivity = req.at]
         ELSE d
    [] req.op = "push-file" ->
         IF r \in DOMAIN d THEN [d EXCEPT ![r] = PushFile(@, req.file, req.at)] ELSE d
    [] req.op = "set-file" ->
         IF r \in DOMAIN d THEN [d EXCEPT ![r] = SetFileFields(@, req.data, req.at)] ELSE d
    [] req.op = "name-file" ->
         IF r \in DOMAIN d THEN [d EXCEPT ![r] = SetFileName(@, req.data, req.at)] ELSE d
    [] req.op = "pull-file" ->
         IF r \in DOMAIN d THEN [d EXCEPT ![r] = PullFile(@, req.fileId, req.at)] ELSE d
    [] req.op = "push-note" ->
         IF r \in DOMAIN d THEN [d EXCEPT ![r] = PushNote(@, req.note, req.at)] ELSE d
    [] req.op = "set-note" ->
         IF r \in DOMAIN d THEN [d EXCEPT ![r] = SetNoteContent(@, req.data, req.at)] ELSE d
    [] req.op = "name-note" ->
         IF r \in DOMAIN d THEN [d EXCEPT ![r] = SetNoteName(@, req.data, req.at)] ELSE d
    [] req.op = "pull-note" ->
         IF r \in DOMAIN d THEN [d EXCEPT ![r] = PullNote(@, req.noteId, req.at)] ELSE d
    [] req.op = "deleteMany" ->
         [k \in {j \in DOMAIN d : ~Expired(d[j], req.cutoff)} |-> d[k]]

\* what the awaited promise settles to: a document, null, or a rejection
\* (Room.create on a roomId the unique index already holds; save() of a
\* document that is gone)
StoreResult(d, req) ==
  LET r == req.roomId IN
  CASE req.op = "findOne" ->
         IF r \in DOMAIN d THEN [status |-> "doc", doc |-> d[r]]
         ELSE [status |-> "null"]
    [] req.op = "create" ->
         IF r \in DOMAIN d THEN [status |-> "error"]
         ELSE [status |-> "doc", doc |-> req.doc]
    [] req.op = "save" ->
         IF r \in DOMAIN d THEN [status |-> "ok"] ELSE [status |-> "error"]
    [] OTHER -> [status |-> "ok"]

\* the store executes the pending call of task t, atomically
StoreExec(t) ==
  /\ tasks[t].kind # "idle"
  /\ tasks[t].pc = "call"
  /\ db' = StoreApply(db, tasks[t].req)
  /\ tasks' = [tasks EXCEPT ![t] =
                 [@ EXCEPT !.pc = "ret", !.res = StoreResult(db, tasks[t].req)]]
  /\ UNCHANGED <<live, currentRoom, roomUsers, ioRooms, wire, now>>

(* ----------------------------- join-room ------------------------------ *)

NoResult == [status |-> "none"]

\* the admission test with > in the place of >=
RoomFullOffByOne(roomId) ==
  roomId \in DOMAIN roomUsers /\ Cardinality(roomUsers[roomId]) > MaxUsers

\* roomUsers.has(roomId) && roomUsers.get(roomId).size >= 2
RoomFull(roomId) ==
  roomId \in DOMAIN roomUsers /\ Cardinality(roomUsers[roomId]) >= MaxUsers

\* if (!roomUsers.has(roomId)) roomUsers.set(roomId, new Set());
\* roomUsers.get(roomId).add(socket.id)
AddUser(ru, roomId, c) ==
  [k \in DOMAIN ru \cup {roomId} |->
     IF k = roomId
     THEN (IF roomId \in DOMAIN ru THEN ru[roomId] ELSE {}) \cup {c}
     ELSE ru[k]]

\* join-room with `currentRoom = roomId` moved in front of the room-full test
JoinRoomAssignFirst(c, roomId) ==
  /\ live[c]
  /\ currentRoom' = [currentRoom EXCEPT ![c] = roomId]
  /\ IF RoomFull(roomId)
     THEN /\ wire' = Emit(wire, c, [type |-> "room-full"])
          /\ UNCHANGED <<live, roomUsers, ioRooms, db, tasks, now>>
     ELSE /\ ioRooms' = [ioRooms EXCEPT ![roomId] = @ \cup {c}]
          /\ roomUsers' = AddUser(roomUsers, roomId, c)
          /\ wire' = Emit(wire, c, [type |-> "user-id", id |-> c])
          /\ Suspend([kind |-> "join-room", conn |-> c, roomId |-> roomId,
                      pc |-> "call", res |-> NoResult,
                      req |-> [op |-> "findOne", roomId |-> roomId]])
          /\ UNCHANGED <<live, db, now>>

\* socket.on('join-room'), up to `await Room.findOne({ roomId })`
JoinRoom(c, roomId) ==
  /\ live[c]
  /\ IF RoomFull(roomId)
     THEN /\ wire' = Emit(wire, c, [type |-> "room-full"])
          /\ UNCHANGED <<live, currentRoom, roomUsers, ioRooms, db, tasks, now>>
     ELSE /\ currentRoom' = [currentRoom EXCEPT ![c] = roomId]
          /\ ioRooms' = [ioRooms EXCEPT ![roomId] = @ \cup {c}]
          /\ roomUsers' = AddUser(roomUsers, roomId, c)
          /\ wire' = Emit(wire, c, [type |-> "user-id", id |-> c])
          /\ Suspend([kind |-> "join-room", conn |-> c, roomId |-> roomId,
                      pc |-> "call", res |-> NoResult,
                      req |-> [op |-> "findOne", roomId |-> roomId]])
          /\ UNCHANGED <<live, db, now>>

\* a catch block of join-room that only logs
JoinFailedSilent(t) ==
  /\ UNCHANGED wire
  /\ Finish(t)

\* catch (error) { socket.emit('error', { message: 'Failed to join room' }) }
JoinFailed(t) ==
  /\ wire' = Emit(wire, tasks[t].conn,
                  [type |-> "error", message |-> "Failed to join room"])
  /\ Finish(t)

\* join-room after findOne has settled: Room.create(...) when there is no
\* document, else room.lastActivity = new Date(); await room.save()
JoinRoomFound(t) ==
  /\ tasks[t].kind = "join-room"
  /\ tasks[t].pc = "ret"
  /\ tasks[t].req.op = "findOne"
  /\ LET res == tasks[t].res
         roomId == tasks[t].roomId
     IN CASE res.status = "null" ->
               /\ tasks' = [tasks EXCEPT ![t] =
                    [@ EXCEPT !.pc = "call", !.res = NoResult,
                              !.req = [op |-> "create", roomId |-> roomId,
                                       doc |-> NewRoom(now)]]]
               /\ UNCHANGED wire
          [] res.status = "doc" ->
               /\ tasks' = [tasks EXCEPT ![t] =
                    [kind |-> "join-room", conn |-> @.conn, roomId |-> roomId,
                     pc |-> "call", res |-> NoResult,
                     room |-> [res.doc EXCEPT !.lastActivity = now],
                     req |-> [op |-> "save", roomId |-> roomId, at |-> now]]]
               /\ UNCHANGED wire
          [] OTHER -> JoinFailed(t)
  /\ UNCHANGED <<live, currentRoom, roomUsers, ioRooms, db, now>>

\* socket.emit('sync', { files, notes, activeFileId, activeNoteId })
SyncMsg(room) ==
  [type |-> "sync", files |-> room.files, notes |-> room.notes,
   activeFileId |-> room.activeFileId, activeNoteId |-> room.activeNoteId]

\* the end of join-room with users-update sent by socket.to(roomId), which
\* leaves out the requester, in the place of io.to(roomId)
JoinRoomSyncToOthers(t) ==
  /\ tasks[t].kind = "join-room"
  /\ tasks[t].pc = "ret"
  /\ tasks[t].req.op \in {"create", "save"}
  /\ LET res == tasks[t].res
         c == tasks[t].conn
         roomId == tasks[t].roomId
         room == IF tasks[t].req.op = "create" THEN res.doc ELSE tasks[t].room
     IN IF res.status = "error"
        THEN JoinFailed(t)
        ELSE LET synced == Emit(wire, c, SyncMsg(room)) IN
             IF roomId \in DOMAIN roomUsers
             THEN /\ wire' = Broadcast(synced, ToRoom(c, roomId),
                              [type |-> "users-update",
                               users |-> roomUsers[roomId]])
                  /\ Finish(t)
             ELSE /\ wire' = Emit(synced, c,
                              [type |-> "error",
                               message |-> "Failed to join room"])
                  /\ Finish(t)
  /\ UNCHANGED <<live, currentRoom, roomUsers, ioRooms, db, now>>

\* join-room after create / save has settled: sync to the requester, then
\* io.to(roomId).emit('users-update', Array.from(roomUsers.get(roomId)));
\* Array.from(undefined) throws when the Map no longer has roomId
JoinRoomSync(t) ==
  /\ tasks[t].kind = "join-room"
  /\ tasks[t].pc = "ret"
  /\ tasks[t].req.op \in {"create", "save"}
  /\ LET res == tasks[t].res
         c == tasks[t].conn
         roomId == tasks[t].roomId
         room == IF tasks[t].req.op = "create" THEN res.doc ELSE tasks[t].room
     IN IF res.status = "error"
        THEN JoinFailed(t)
        ELSE LET synced == Emit(wire, c, SyncMsg(room)) IN
             IF roomId \in DOMAIN roomUsers
             THEN /\ wire' = Broadcast(synced, ioRooms[roomId],
                              [type |-> "users-update",
                               users |-> roomUsers[roomId]])
                  /\ Finish(t)
             ELSE /\ wire' = Emit(synced, c,
                              [type |-> "error",
                               message |-> "Failed to join room"])
                  /\ Finish(t)
  /\ UNCHANGED <<live, currentRoom, roomUsers, ioRooms, db, now>>

(* ----------------------------- disconnect ----------------------------- *)

\* the removal of a member without the removal of the emptied entry
RemoveUserKeepEntry(ru, roomId, c) ==
  [ru EXCEPT ![roomId] = @ \ {c}]

\* roomUsers.get(currentRoom).delete(socket.id), then
\* roomUsers.delete(currentRoom) when the set is empty
RemoveUser(ru, roomId, c) ==
  IF ru[roomId] \ {c} = {}
  THEN [k \in DOMAIN ru \ {roomId} |-> ru[k]]
  ELSE [ru EXCEPT ![roomId] = @ \ {c}]

\* socket.on('disconnect'): socket.io has already taken the socket out of
\* every room it had joined when the handler runs
Disconnect(c) ==
  /\ live[c]
  /\ live' = [live EXCEPT ![c] = FALSE]
  /\ ioRooms' = [r \in RoomKeys |-> ioRooms[r] \ {c}]
  /\ LET cr == currentRoom[c] IN
     IF cr # NoRoom /\ cr \in DOMAIN roomUsers
     THEN /\ roomUsers' = RemoveUser(roomUsers, cr, c)
          /\ LET ended == Broadcast(wire, ioRooms[cr] \ {c},
                                    [type |-> "call-ended"])
             IN IF roomUsers[cr] \ {c} = {}
                THEN wire' = ended
                ELSE wire' = Broadcast(ended, ioRooms[cr] \ {c},
                                       [type |-> "users-update",
                                        users |-> roomUsers[cr] \ {c}])
     ELSE UNCHANGED <<roomUsers, wire>>
  /\ UNCHANGED <<currentRoom, db, tasks, now>>

(* --------------------- file and note operations ----------------------- *)

\* a file or note handler without its first line `if (!currentRoom) return;`
MutateUnguarded(c, req, echo) ==
  /\ live[c]
  /\ Suspend([kind |-> echo.type, conn |-> c, pc |-> "call",
              res |-> NoResult, req |-> req, echo |-> echo])
  /\ UNCHANGED <<live, currentRoom, roomUsers, ioRooms, db, wire, now>>

\* if (!currentRoom) return; await Room.findOneAndUpdate(...): the filter's
\* roomId and new Date() are evaluated before the handler suspends; `echo`
\* is the event the handler emits once the call has settled
Mutate(c, req, echo) ==
  /\ live[c]
  /\ IF currentRoom[c] = NoRoom
     THEN UNCHANGED tasks
     ELSE Suspend([kind |-> echo.type, conn |-> c, pc |-> "call",
                   res |-> NoResult, req |-> req, echo |-> echo])
  /\ UNCHANGED <<live, currentRoom, roomUsers, ioRooms, db, wire, now>>

\* socket.on('file-create')
FileCreate(c, file) ==
  Mutate(c, [op |-> "push-file", roomId |-> currentRoom[c], file |-> file,
             at |-> now],
         [type |-> "file-create", file |-> file])

\* the $set the store receives for { 'files.$.content': data.content } when
\* data.content is undefined: Mongoose 6 and later drop the key from the
\* update, Mongoose 5 sends it and the driver writes it as null
CastUpdate(data) ==
  IF data.content = Undefined
  THEN {data, [data EXCEPT !.content = Null]}
  ELSE {data}

\* socket.on('file-update')
FileUpdate(c, data) ==
  \E update \in CastUpdate(data) :
    Mutate(c, [op |-> "set-file", roomId |-> currentRoom[c], data |-> update,
               at |-> now],
           [type |-> "file-update", data |-> data])

\* socket.on('file-rename')
FileRename(c, data) ==
  Mutate(c, [op |-> "name-file", roomId |-> currentRoom[c], data |-> data,
             at |-> now],
         [type |-> "file-rename", data |-> data])

\* socket.on('note-create')
NoteCreate(c, note) ==
  Mutate(c, [op |-> "push-note", roomId |-> currentRoom[c], note |-> note,
             at |-> now],
         [type |-> "note-create", note |-> note])

\* socket.on('note-update')
NoteUpdate(c, data) ==
  Mutate(c, [op |-> "set-note", roomId |-> currentRoom[c], data |-> data,
             at |-> now],
         [type |-> "note-update", data |-> data])

\* socket.on('note-rename')
NoteRename(c, data) ==
  Mutate(c, [op |-> "name-note", roomId |-> currentRoom[c], data |-> data,
             at |-> now],
         [type |-> "note-rename", data |-> data])

\* socket.on('file-delete'), up to `await Room.findOne({ roomId: currentRoom })`
FileDelete(c, fileId) ==
  Mutate(c, [op |-> "findOne", roomId |-> currentRoom[c]],
         [type |-> "file-delete", fileId |-> fileId])

\* socket.on('note-delete'), up to `await Room.findOne({ roomId: currentRoom })`
NoteDelete(c, noteId) ==
  Mutate(c, [op |-> "findOne", roomId |-> currentRoom[c]],
         [type |-> "note-delete", noteId |-> noteId])

\* room.files.length <= 1
LastFile(room) == Len(room.files) <= 1

\* room.notes.length <= 1
LastNote(room) == Len(room.notes) <= 1

\* file-delete after findOne has settled: room.files of null throws into
\* the catch block; the last file is refused with an error to the sender;
\* else `await Room.findOneAndUpdate({ roomId: currentRoom }, { $pull ... })`
FileDeleteFound(t) ==
  /\ tasks[t].kind = "file-delete"
  /\ tasks[t].pc = "ret"
  /\ tasks[t].req.op = "findOne"
  /\ LET res == tasks[t].res
         c == tasks[t].conn
     IN CASE res.status = "doc" /\ LastFile(res.doc) ->
               /\ wire' = Emit(wire, c, [type |-> "error",
                                 message |-> "Cannot delete the last file"])
               /\ Finish(t)
          [] res.status = "doc" /\ ~LastFile(res.doc) ->
               /\ tasks' = [tasks EXCEPT ![t] =
                    [kind |-> @.kind, conn |-> c, echo |-> @.echo,
                     pc |-> "call", res |-> NoResult, room |-> res.doc,
                     req |-> [op |-> "pull-file",
                                       roomId |-> currentRoom[c],
                                       fileId |-> tasks[t].echo.fileId,
                                       at |-> now]]]
               /\ UNCHANGED wire
          [] OTHER -> Finish(t) /\ UNCHANGED wire
  /\ UNCHANGED <<live, currentRoom, roomUsers, ioRooms, db, now>>

\* note-delete after findOne has settled
NoteDeleteFound(t) ==
  /\ tasks[t].kind = "note-delete"
  /\ tasks[t].pc = "ret"
  /\ tasks[t].req.op = "findOne"
  /\ LET res == tasks[t].res
         c == tasks[t].conn
     IN CASE res.status = "doc" /\ LastNote(res.doc) ->
               /\ wire' = Emit(wire, c, [type |-> "error",
                                 message |-> "Cannot delete the last note"])
               /\ Finish(t)
          [] res.status = "doc" /\ ~LastNote(res.doc) ->
               /\ tasks' = [tasks EXCEPT ![t] =
                    [kind |-> @.kind, conn |-> c, echo |-> @.echo,
                     pc |-> "call", res |-> NoResult, room |-> res.doc,
                     req |-> [op |-> "pull-note",
                                       roomId |-> currentRoom[c],
                                       noteId |-> tasks[t].echo.noteId,
                                       at |-> now]]]
               /\ UNCHANGED wire
          [] OTHER -> Finish(t) /\ UNCHANGED wire
  /\ UNCHANGED <<live, currentRoom, roomUsers, ioRooms, db, now>>

MutationKinds ==
  {"file-create", "file-update", "file-rename", "file-delete",
   "note-create", "note-update", "note-rename", "note-delete"}

\* the sockets the echo of connection c's mutation is emitted to:
\* socket.to(currentRoom), currentRoom read when the store call has settled
EchoTo(c) == ToRoom(c, currentRoom[c])

\* a mutation handler that emits its event whether or not the call was
\* rejected
EchoAlways(t) ==
  /\ tasks[t].kind \in MutationKinds
  /\ tasks[t].pc = "ret"
  /\ tasks[t].req.op # "findOne"
  /\ wire' = Broadcast(wire, EchoTo(tasks[t].conn), tasks[t].echo)
  /\ Finish(t)
  /\ UNCHANGED <<live, currentRoom, roomUsers, ioRooms, db, now>>

\* a mutation handler after its findOneAndUpdate has settled:
\* socket.to(currentRoom).emit(<event>, <payload>); a rejected call goes to
\* the catch block, which only logs
Echo(t) ==
  /\ tasks[t].kind \in MutationKinds
  /\ tasks[t].pc = "ret"
  /\ tasks[t].req.op # "findOne"
  /\ IF tasks[t].res.status = "error"
     THEN UNCHANGED wire
     ELSE wire' = Broadcast(wire, EchoTo(tasks[t].conn), tasks[t].echo)
  /\ Finish(t)
  /\ UNCHANGED <<live, currentRoom, roomUsers, ioRooms, db, now>>

(* ----------------------- clock and cleanup job ------------------------ *)

\* the clock never shows more than MaxTime hours
MaxTime == 26

\* at most MaxDrift single hours pass after a whole day has passed
MaxDrift == 2

\* an hour passes; handlers may be suspended at a store call meanwhile
TickHour ==
  /\ now % Retention < MaxDrift
  /\ now < MaxTime
  /\ now' = now + 1
  /\ UNCHANGED <<live, currentRoom, roomUsers, ioRooms, db, tasks, wire>>

\* a day passes in which no event arrives and no handler is suspended
TickDay ==
  /\ AllIdle
  /\ now + Retention <= MaxTime
  /\ now' = now + Retention
  /\ UNCHANGED <<live, currentRoom, roomUsers, ioRooms, db, tasks, wire>>

\* cron.schedule('0 * * * *'): cutoff = new Date(Date.now() - 24 h), then
\* await Room.deleteMany({ lastActivity: { $lt: cutoff } })
Cleanup ==
  /\ Suspend([kind |-> "cleanup", pc |-> "call", res |-> NoResult,
              req |-> [op |-> "deleteMany", cutoff |-> now - Retention]])
  /\ UNCHANGED <<live, currentRoom, roomUsers, ioRooms, db, wire, now>>

\* the cleanup job after deleteMany has settled: it logs the count
CleanupDone(t) ==
  /\ tasks[t].kind = "cleanup"
  /\ tasks[t].pc = "ret"
  /\ Finish(t)
  /\ UNCHANGED <<live, currentRoom, roomUsers, ioRooms, db, wire, now>>

\* the pending store call of task t is rejected (the connection to the
\* store is lost, the call times out): the store executes nothing
StoreFail(t) ==
  /\ tasks[t].kind # "idle"
  /\ tasks[t].pc = "call"
  /\ tasks' = [tasks EXCEPT ![t] =
                 [@ EXCEPT !.pc = "ret", !.res = [status |-> "error"]]]
  /\ UNCHANGED <<live, currentRoom, roomUsers, ioRooms, db, wire, now>>

(* ------------------------ chat and signaling -------------------------- *)

\* the events the server only passes on to the rest of the room
RelayTypes ==
  {"chat-message", "typing-start", "typing-stop", "video-toggle",
   "audio-toggle", "screen-share-toggle", "call-request", "call-accepted",
   "call-rejected", "call-ended", "offer", "answer", "ice-candidate"}

\* the relay events the server emits with the payload it received
WithPayload ==
  {"chat-message", "video-toggle", "audio-toggle", "screen-share-toggle",
   "offer", "answer", "ice-candidate"}

\* what the server emits for relay event `type` of connection c:
\* call-request carries socket.id, the events of WithPayload carry the
\* payload received, the others carry nothing
RelayMsg(c, type, data) ==
  IF type = "call-request" THEN [type |-> type, data |-> c]
  ELSE IF type \in WithPayload THEN [type |-> type, data |-> data]
  ELSE [type |-> type]

\* a relay handler that emits with io.to(currentRoom), which includes the
\* sender
RelayToAll(c, type, data) ==
  /\ live[c]
  /\ IF currentRoom[c] = NoRoom
     THEN UNCHANGED wire
     ELSE wire' = Broadcast(wire, ioRooms[currentRoom[c]],
                            RelayMsg(c, type, data))
  /\ UNCHANGED <<live, currentRoom, roomUsers, ioRooms, db, tasks, now>>

\* socket.on(type): if (!currentRoom) return;
\* socket.to(currentRoom).emit(type, ...)
Relay(c, type, data) ==
  /\ live[c]
  /\ IF currentRoom[c] = NoRoom
     THEN UNCHANGED wire
     ELSE wire' = Broadcast(wire, ToRoom(c, currentRoom[c]),
                            RelayMsg(c, type, data))
  /\ UNCHANGED <<live, currentRoom, roomUsers, ioRooms, db, tasks, now>>

(* ------------------------------- clients ------------------------------ *)

\* one more client event is received
Issue ==
  /\ nEvents < MaxEvents
  /\ nEvents' = nEvents + 1

ClientJoin ==
  \E c \in Conns, r \in RoomKeys :
    /\ Issue
    /\ JoinRoom(c, r)
    /\ UNCHANGED <<view, touched>>

ClientDisconnect ==
  \E c \in Conns :
    /\ Disconnect(c)
    /\ UNCHANGED <<nEvents, view, touched>>

StoreStep ==
  \E t \in TaskIds : StoreExec(t) /\ UNCHANGED <<nEvents, view, touched>>

JoinFoundStep ==
  \E t \in TaskIds : JoinRoomFound(t) /\ UNCHANGED <<nEvents, view, touched>>

JoinSyncStep ==
  \E t \in TaskIds : JoinRoomSync(t) /\ UNCHANGED <<nEvents, view, touched>>

(* the payloads clients send *)

F1 == [id |-> "f1", name |-> "b", content |-> "x", language |-> "python"]

N1 == [id |-> "n1", name |-> "b", content |-> "x"]

NewFiles == {[F1 EXCEPT !.id = i] : i \in FileIds}

NewNotes == {[N1 EXCEPT !.id = i] : i \in NoteIds}

FileUpdates ==
  [fileId : FileIds, content : Contents, language : {Undefined, "python"}]

FileRenames == [fileId : FileIds, name : {"b"}]

NoteUpdates == [noteId : NoteIds, content : Contents]

NoteRenames == [noteId : NoteIds, name : {"b"}]

ClientFileCreate(payloads) ==
  \E c \in Conns, file \in payloads :
    Issue /\ FileCreate(c, file) /\ UNCHANGED <<view, touched>>

ClientFileUpdate(payloads) ==
  \E c \in Conns, data \in payloads :
    Issue /\ FileUpdate(c, data) /\ UNCHANGED <<view, touched>>

ClientFileRename(payloads) ==
  \E c \in Conns, data \in payloads :
    Issue /\ FileRename(c, data) /\ UNCHANGED <<view, touched>>

ClientFileDelete(payloads) ==
  \E c \in Conns, fileId \in payloads :
    Issue /\ FileDelete(c, fileId) /\ UNCHANGED <<view, touched>>

ClientNoteCreate(payloads) ==
  \E c \in Conns, note \in payloads :
    Issue /\ NoteCreate(c, note) /\ UNCHANGED <<view, touched>>

ClientNoteUpdate(payloads) ==
  \E c \in Conns, data \in payloads :
    Issue /\ NoteUpdate(c, data) /\ UNCHANGED <<view, touched>>

ClientNoteRename(payloads) ==
  \E c \in Conns, data \in payloads :
    Issue /\ NoteRename(c, data) /\ UNCHANGED <<view, touched>>

ClientNoteDelete(payloads) ==
  \E c \in Conns, noteId \in payloads :
    Issue /\ NoteDelete(c, noteId) /\ UNCHANGED <<view, touched>>

\* a chat, typing, media-toggle or signaling event is received
ClientRelay(types) ==
  \E c \in Conns, type \in types :
    Issue /\ Relay(c, type, "d") /\ UNCHANGED <<view, touched>>

TickHourStep == TickHour /\ UNCHANGED <<nEvents, view, touched>>

TickDayStep == TickDay /\ UNCHANGED <<nEvents, view, touched>>

CleanupStep == Cleanup /\ UNCHANGED <<nEvents, view, touched>>

CleanupDoneStep ==
  \E t \in TaskIds : CleanupDone(t) /\ UNCHANGED <<nEvents, view, touched>>

StoreFailStep ==
  \E t \in TaskIds : StoreFail(t) /\ UNCHANGED <<nEvents, view, touched>>

FileDeleteFoundStep ==
  \E t \in TaskIds : FileDeleteFound(t) /\ UNCHANGED <<nEvents, view, touched>>

NoteDeleteFoundStep ==
  \E t \in TaskIds : NoteDeleteFound(t) /\ UNCHANGED <<nEvents, view, touched>>

EchoStep ==
  \E t \in TaskIds : Echo(t) /\ UNCHANGED <<nEvents, view, touched>>

(* Membership: join-room and disconnect events of NumConns connections on  *)
(* two room keys, starting from an empty registry and an empty collection. *)
NextJoin ==
  \/ ClientJoin
  \/ ClientDisconnect
  \/ StoreStep
  \/ JoinFoundStep
  \/ JoinSyncStep

SpecJoin == Init /\ [][NextJoin]_vars

\* a room after file-create of f1 and note-create of n1
TwoItems ==
  PushNote(PushFile(NewRoom(0), F1, 0), N1, 0)

\* what the client displays once it has received sync for `doc`
Synced(doc) == [synced |-> TRUE, files |-> doc.files, notes |-> doc.notes]

\* the connections of `members` (at most two) have joined room r1, whose
\* stored document is `doc`, every handler has returned and every emitted
\* event has been delivered
Joined(members, doc) ==
  /\ live = [c \in Conns |-> TRUE]
  /\ currentRoom = [c \in Conns |-> IF c \in members THEN "r1" ELSE NoRoom]
  /\ roomUsers = [r \in {"r1"} |-> members]
  /\ ioRooms = [r \in RoomKeys |-> IF r = "r1" THEN members ELSE {}]
  /\ db = [r \in {"r1"} |-> doc]
  /\ tasks = [t \in TaskIds |-> Idle]
  /\ wire = [c \in Conns |-> <<>>]
  /\ now = 0
  /\ nEvents = 0
  /\ view = [c \in Conns |-> IF c \in members THEN Synced(doc) ELSE NoView]
  /\ touched = {}

InRoom(doc) == Joined({1, 2}, doc)

InitRoom == InRoom(NewRoom(0)) \/ InRoom(TwoItems)

(* Handlers run to completion: the file and note events of the members of  *)
(* a room, each received only when no handler is suspended.                *)
NextSeq ==
  \/ AllIdle /\ ClientFileCreate(NewFiles)
  \/ AllIdle /\ ClientFileUpdate(FileUpdates)
  \/ AllIdle /\ ClientFileRename(FileRenames)
  \/ AllIdle /\ ClientFileDelete(FileIds)
  \/ AllIdle /\ ClientNoteCreate(NewNotes)
  \/ AllIdle /\ ClientNoteUpdate(NoteUpdates)
  \/ AllIdle /\ ClientNoteRename(NoteRenames)
  \/ AllIdle /\ ClientNoteDelete(NoteIds)
  \/ StoreStep
  \/ FileDeleteFoundStep
  \/ NoteDeleteFoundStep
  \/ EchoStep

SpecSeq == InitRoom /\ [][NextSeq]_vars

(* Concurrent deletes: file-delete and note-delete events of the members   *)
(* of a room whose items have distinct ids.                                *)
NextDelete ==
  \/ ClientFileDelete(FileIds)
  \/ ClientNoteDelete(NoteIds)
  \/ StoreStep
  \/ FileDeleteFoundStep
  \/ NoteDeleteFoundStep
  \/ EchoStep

SpecDelete == InitRoom /\ [][NextDelete]_vars

(* A room in use: joins, disconnects and every file and note event.        *)
\* the room has received fewer than MaxRoomEvents client events
RoomOpen == nEvents < MaxRoomEvents

NextRoom ==
  \/ RoomOpen /\ ClientJoin
  \/ RoomOpen /\ ClientFileCreate({F1})
  \/ RoomOpen /\ ClientFileUpdate({[fileId |-> "default", content |-> "x",
                                     language |-> Undefined]})
  \/ RoomOpen /\ ClientFileRename({[fileId |-> "default", name |-> "b"]})
  \/ RoomOpen /\ ClientFileDelete({"f1"})
  \/ RoomOpen /\ ClientNoteCreate({N1})
  \/ RoomOpen /\ ClientNoteUpdate({[noteId |-> "default", content |-> "x"]})
  \/ RoomOpen /\ ClientNoteRename({[noteId |-> "default", name |-> "b"]})
  \/ RoomOpen /\ ClientNoteDelete({"n1"})
  \/ ClientDisconnect
  \/ StoreStep
  \/ JoinFoundStep
  \/ JoinSyncStep
  \/ FileDeleteFoundStep
  \/ NoteDeleteFoundStep
  \/ EchoStep

SpecRoom == InRoom(TwoItems) /\ [][NextRoom]_vars

(* Joined and unjoined senders: two members of r1 and a connection that    *)
(* has joined no room; any of them sends joins, file and note events, chat *)
(* and signaling events.                                                   *)
NextLobby ==
  \/ RoomOpen /\ ClientJoin
  \/ RoomOpen /\ ClientRelay(RelayTypes)
  \/ RoomOpen /\ ClientFileCreate({F1})
  \/ RoomOpen /\ ClientFileUpdate({[fileId |-> "default", content |-> "x",
                                     language |-> Undefined]})
  \/ RoomOpen /\ ClientFileRename({[fileId |-> "default", name |-> "b"]})
  \/ RoomOpen /\ ClientFileDelete({"f1"})
  \/ RoomOpen /\ ClientNoteCreate({N1})
  \/ RoomOpen /\ ClientNoteUpdate({[noteId |-> "default", content |-> "x"]})
  \/ RoomOpen /\ ClientNoteRename({[noteId |-> "default", name |-> "b"]})
  \/ RoomOpen /\ ClientNoteDelete({"n1"})
  \/ StoreStep
  \/ JoinFoundStep
  \/ JoinSyncStep
  \/ FileDeleteFoundStep
  \/ NoteDeleteFoundStep
  \/ EchoStep

SpecLobby == InRoom(TwoItems) /\ [][NextLobby]_vars

(* Idle rooms: joins and file and note events from an empty collection,   *)
(* each received when no handler is suspended, while hours and days pass   *)
(* and the hourly cleanup job runs.                                        *)
NextSweep ==
  \/ AllIdle /\ ClientJoin
  \/ AllIdle /\ ClientFileCreate({F1})
  \/ AllIdle /\ ClientFileUpdate({[fileId |-> "default",
                                    content |-> "x",
                                    language |-> Undefined]})
  \/ AllIdle /\ ClientFileRename({[fileId |-> "default", name |-> "b"]})
  \/ AllIdle /\ ClientFileDelete({"f1"})
  \/ AllIdle /\ ClientNoteCreate({N1})
  \/ AllIdle /\ ClientNoteUpdate({[noteId |-> "default", content |-> "x"]})
  \/ AllIdle /\ ClientNoteRename({[noteId |-> "default", name |-> "b"]})
  \/ AllIdle /\ ClientNoteDelete({"n1"})
  \/ TickHourStep
  \/ TickDayStep
  \/ AllIdle /\ CleanupStep
  \/ CleanupDoneStep
  \/ StoreStep
  \/ JoinFoundStep
  \/ JoinSyncStep
  \/ FileDeleteFoundStep
  \/ NoteDeleteFoundStep
  \/ EchoStep

SpecSweep == Init /\ [][NextSweep]_vars

(* Overlapping handlers and the clock: one member in r1; joins, updates   *)
(* and the cleanup job start while other handlers are suspended and while  *)
(* hours and days pass.                                                    *)
NextClock ==
  \/ RoomOpen /\ ClientJoin
  \/ RoomOpen /\ ClientFileUpdate({[fileId |-> "default", content |-> "x",
                                     language |-> Undefined]})
  \/ RoomOpen /\ ClientNoteUpdate({[noteId |-> "default", content |-> "x"]})
  \/ TickHourStep
  \/ TickDayStep
  \/ CleanupStep
  \/ CleanupDoneStep
  \/ StoreStep
  \/ JoinFoundStep
  \/ JoinSyncStep
  \/ EchoStep

SpecClock == Joined({1}, NewRoom(0)) /\ [][NextClock]_vars

(* Store failures: r1 with one or two members; joins, disconnects and     *)
(* file and note events whose store calls the store executes or rejects.   *)
NextFail ==
  \/ RoomOpen /\ ClientJoin
  \/ RoomOpen /\ ClientFileCreate({F1})
  \/ RoomOpen /\ ClientFileUpdate({[fileId |-> "default", content |-> "x",
                                     language |-> Undefined]})
  \/ RoomOpen /\ ClientFileRename({[fileId |-> "default", name |-> "b"]})
  \/ RoomOpen /\ ClientFileDelete({"f1"})
  \/ RoomOpen /\ ClientNoteCreate({N1})
  \/ RoomOpen /\ ClientNoteUpdate({[noteId |-> "default", content |-> "x"]})
  \/ RoomOpen /\ ClientNoteRename({[noteId |-> "default", name |-> "b"]})
  \/ RoomOpen /\ ClientNoteDelete({"n1"})
  \/ ClientDisconnect
  \/ StoreStep
  \/ StoreFailStep
  \/ JoinFoundStep
  \/ JoinSyncStep
  \/ FileDeleteFoundStep
  \/ NoteDeleteFoundStep
  \/ EchoStep

SpecFail ==
  (InRoom(TwoItems) \/ Joined({1}, TwoItems)) /\ [][NextFail]_vars

(* Concurrent updates: the members of a room with one file and one note    *)
(* send file-update events that carry only a content or only a language,   *)
(* and note-update events, for the same file and the same note.            *)
\* file-update payloads for the file 'default': content only, language only
FieldUpdates ==
  {[fileId |-> "default", content |-> v, language |-> Undefined] :
     v \in Contents}
  \cup {[fileId |-> "default", content |-> Undefined, language |-> "python"]}

NextUpdate ==
  \/ ClientFileUpdate(FieldUpdates)
  \/ ClientNoteUpdate([noteId : {"default"}, content : Contents])
  \/ StoreStep
  \/ EchoStep

SpecUpdate == InRoom(NewRoom(0)) /\ [][NextUpdate]_vars

(* --------------------------- client views ----------------------------- *)

\* the view as a document, so that the store's operators apply to it
AsDoc(v) ==
  [files |-> v.files, notes |-> v.notes, activeFileId |-> "default",
   activeNoteId |-> "default", createdAt |-> 0, lastActivity |-> 0]

\* the view of a client after event `msg`: sync replaces it; a file or a
\* note event changes it the way the same event changes the stored room;
\* before the first sync there is nothing to change
ViewApply(v, msg) ==
  IF msg.type = "sync" THEN [synced |-> TRUE, files |-> msg.files,
                             notes |-> msg.notes]
  ELSE IF ~v.synced THEN v
  ELSE CASE msg.type = "file-create" -> Synced(PushFile(AsDoc(v), msg.file, 0))
         [] msg.type = "file-update" ->
              Synced(SetFileFields(AsDoc(v), msg.data, 0))
         [] msg.type = "file-rename" ->
              Synced(SetFileName(AsDoc(v), msg.data, 0))
         [] msg.type = "file-delete" -> Synced(PullFile(AsDoc(v), msg.fileId, 0))
         [] msg.type = "note-create" -> Synced(PushNote(AsDoc(v), msg.note, 0))
         [] msg.type = "note-update" ->
              Synced(SetNoteContent(AsDoc(v), msg.data, 0))
         [] msg.type = "note-rename" ->
              Synced(SetNoteName(AsDoc(v), msg.data, 0))
         [] msg.type = "note-delete" -> Synced(PullNote(AsDoc(v), msg.noteId, 0))
         [] OTHER -> v

\* the oldest undelivered event of connection c reaches its client
Deliver(c) ==
  /\ live[c]
  /\ wire[c] # <<>>
  /\ view' = [view EXCEPT ![c] = ViewApply(@, Head(wire[c]))]
  /\ wire' = [wire EXCEPT ![c] = Tail(@)]
  /\ UNCHANGED <<live, currentRoom, roomUsers, ioRooms, db, tasks, now,
                 nEvents, touched>>

\* the client of c, which has its sync, makes an edit aimed at `field`, that
\* no earlier edit was aimed at: it applies the edit to its own view and
\* sends it
Edit(c, field, echo) ==
  /\ view[c].synced
  /\ field \notin touched
  /\ touched' = touched \cup {field}
  /\ view' = [view EXCEPT ![c] = ViewApply(@, echo)]
  /\ Issue

EditFileUpdate ==
  \E c \in Conns, data \in [fileId : {"default"}, content : {"x"},
                             language : {Undefined}] :
    /\ Edit(c, <<"file", data.fileId, "content">>,
            [type |-> "file-update", data |-> data])
    /\ FileUpdate(c, data)

EditFileRename ==
  \E c \in Conns, data \in [fileId : {"default"}, name : {"b"}] :
    /\ Edit(c, <<"file", data.fileId, "name">>,
            [type |-> "file-rename", data |-> data])
    /\ FileRename(c, data)

EditNoteUpdate ==
  \E c \in Conns, data \in [noteId : {"default"}, content : {"x"}] :
    /\ Edit(c, <<"note", data.noteId, "content">>,
            [type |-> "note-update", data |-> data])
    /\ NoteUpdate(c, data)

EditNoteRename ==
  \E c \in Conns, data \in [noteId : {"default"}, name : {"b"}] :
    /\ Edit(c, <<"note", data.noteId, "name">>,
            [type |-> "note-rename", data |-> data])
    /\ NoteRename(c, data)

DeliverStep == \E c \in Conns : Deliver(c)

\* a connection that has not joined any room sends join-room
FirstJoin ==
  \E c \in Conns, r \in RoomKeys :
    /\ currentRoom[c] = NoRoom
    /\ Issue
    /\ JoinRoom(c, r)
    /\ UNCHANGED <<view, touched>>

(* Views: one member is in room r1 and has its sync; connections join and  *)
(* the members edit fields of the files and notes, each field at most once.*)
NextView ==
  \/ FirstJoin
  \/ EditFileUpdate
  \/ EditFileRename
  \/ EditNoteUpdate
  \/ EditNoteRename
  \/ StoreStep
  \/ JoinFoundStep
  \/ JoinSyncStep
  \/ EchoStep
  \/ DeliverStep

SpecView == Joined({1}, NewRoom(0)) /\ [][NextView]_vars

(* ------------------------- what clients observe ----------------------- *)

\* number of events of type `type` emitted to connection c and not consumed
Count(c, type) ==
  Cardinality({i \in 1..Len(wire[c]) : wire[c][i].type = type})

\* join-room events of c the server admitted (each emits one user-id)
Admissions(c) == Count(c, "user-id")

\* join-room events of c the server refused (each emits one room-full)
Refusals(c) == Count(c, "room-full")

\* the rooms whose registry member set holds c
RoomsOf(c) == {r \in DOMAIN roomUsers : c \in roomUsers[r]}

(* ------------------------------- claims ------------------------------- *)

\* the connections of S are all the connections that sent a join-room, each
\* sent exactly one, nobody has disconnected, and the admitted ones are in r
ThreeJoins(S, r) ==
  /\ Cardinality(S) = 3
  /\ \A c \in Conns : live[c]
  /\ \A c \in Conns \ S : Admissions(c) + Refusals(c) = 0
  /\ \A c \in S : Admissions(c) + Refusals(c) = 1
  /\ \A c \in S : Admissions(c) = 1 => currentRoom[c] = r

\* C1: the registry member set of every room has at most 2 connections in
\* every reachable state, and when 3 distinct unjoined connections have each
\* sent one join-room for the same room (and nothing else has happened to
\* the registry), exactly 2 were admitted and exactly 1 got room-full.
C1_MemberCap ==
  /\ \A r \in DOMAIN roomUsers : Cardinality(roomUsers[r]) <= 2
  /\ \A r \in RoomKeys, S \in SUBSET Conns :
       ThreeJoins(S, r) =>
         /\ Cardinality({c \in S : Admissions(c) = 1}) = 2
         /\ Cardinality({c \in S : Refusals(c) = 1}) = 1
         /\ roomUsers[r] = {c \in S : Admissions(c) = 1}

\* three connections have sent join-room for r1; one of them was refused
C1_Witness ==
  /\ ThreeJoins(Conns, "r1")
  /\ \E c \in Conns : Refusals(c) = 1
  /\ Cardinality(roomUsers["r1"]) = 2

\* C5: two connections that joined a room without a stored document at the
\* same time both end up with a sync of the one document that was created,
\* and neither gets an error.
C5_BothFirstJoinersSynced ==
  \A c, d \in Conns :
    ( /\ c # d
      /\ AllIdle
      /\ \A e \in Conns : live[e]
      /\ \A e \in Conns \ {c, d} : Admissions(e) + Refusals(e) = 0
      /\ Admissions(c) = 1 /\ Admissions(d) = 1
      /\ Refusals(c) = 0 /\ Refusals(d) = 0
      /\ currentRoom[c] = currentRoom[d] )
    => /\ Count(c, "sync") = 1 /\ Count(d, "sync") = 1
       /\ Count(c, "error") = 0 /\ Count(d, "error") = 0
       /\ \A i \in 1..Len(wire[c]), j \in 1..Len(wire[d]) :
            wire[c][i].type = "sync" /\ wire[d][j].type = "sync"
              => wire[c][i] = wire[d][j]

\* C6: a join-room of a connection that is already joined changes neither
\* its current room nor the member set of any other room.
C6_SecondJoinRejected ==
  [][\A c \in Conns :
       currentRoom[c] # NoRoom =>
         /\ currentRoom'[c] = currentRoom[c]
         /\ \A r \in RoomKeys \ {currentRoom[c]} :
              (r \in DOMAIN roomUsers' /\ c \in roomUsers'[r])
                => (r \in DOMAIN roomUsers /\ c \in roomUsers[r])]_vars

\* C7: every connection is in the member set of at most one room.
C7_OneRoomPerConnection ==
  \A c \in Conns : Cardinality(RoomsOf(c)) <= 1

\* C8: a connection whose disconnect has been processed is in no room's
\* member set.
C8_DisconnectedNotMember ==
  \A c \in Conns : ~live[c] => RoomsOf(c) = {}

\* C3: with every handler run to completion before the next starts, the
\* files and the notes of every stored room are never empty.
C3_NeverEmpty ==
  \A r \in DOMAIN db : Len(db[r].files) >= 1 /\ Len(db[r].notes) >= 1

\* the ids of the file-delete (note-delete) events echoed to connection c
EchoedDeletes(c, type) ==
  {i \in 1..Len(wire[c]) : wire[c][i].type = type}

\* C4: when the two members of a room with two files of distinct ids each
\* delete one of them at the same time, a file remains stored and one of the
\* two deletes is refused instead of being echoed; likewise for notes.
C4_LastItemSurvivesRace ==
  /\ \A r \in DOMAIN db : Len(db[r].files) >= 1 /\ Len(db[r].notes) >= 1
  /\ ~ \E i \in EchoedDeletes(1, "file-delete"),
          j \in EchoedDeletes(2, "file-delete") :
          wire[1][i].fileId # wire[2][j].fileId
  /\ ~ \E i \in EchoedDeletes(1, "note-delete"),
          j \in EchoedDeletes(2, "note-delete") :
          wire[1][i].noteId # wire[2][j].noteId

\* task t is a mutation handler whose store call has settled, and this step
\* is its continuation
EchoStepOf(t) ==
  /\ tasks[t].kind \in MutationKinds
  /\ tasks[t].pc = "ret"
  /\ tasks[t].req.op # "findOne"
  /\ tasks'[t].kind = "idle"

\* C9: the echo of a mutation of connection c on room r is never emitted to
\* c, and is emitted only to members of r whose current room is r.
C9_EchoOnlyToRoomMembers ==
  [][\A t \in TaskIds :
       EchoStepOf(t) =>
         LET c == tasks[t].conn
             r == tasks[t].req.roomId
         IN /\ wire'[c] = wire[c]
            /\ \A d \in Conns :
                 wire'[d] # wire[d] =>
                   /\ r \in DOMAIN roomUsers
                   /\ d \in roomUsers[r]
                   /\ currentRoom[d] = r]_vars

\* the sequence `items` holds exactly two items, of distinct ids, one of
\* which has id `id`
TwoWith(items, id) ==
  /\ Len(items) = 2
  /\ items[1].id # items[2].id
  /\ \E i \in 1..2 : items[i].id = id

\* the item of `items` (two items) whose id is not `id`
Other(items, id) == IF items[1].id = id THEN <<items[2]>> ELSE <<items[1]>>

\* C10: a file-delete that finds one file sends an error to the sender only,
\* echoes nothing and leaves the files as they are; a file-delete of an
\* existing id that finds two files of distinct ids leaves exactly the other
\* file stored, and its echo goes to the other member only.  The same for
\* note-delete.
C10_DeleteContract ==
  [][\A t \in TaskIds :
       LET tk == tasks[t]
           c == tk.conn
       IN /\ ( /\ tk.kind \in {"file-delete", "note-delete"}
               /\ tk.pc = "ret" /\ tk.req.op = "findOne"
               /\ tk.res.status = "doc"
               /\ IF tk.kind = "file-delete" THEN Len(tk.res.doc.files) = 1
                                             ELSE Len(tk.res.doc.notes) = 1
               /\ tasks'[t] # tk )
             => /\ tasks'[t].kind = "idle"
                /\ db' = db
                /\ Len(wire'[c]) = Len(wire[c]) + 1
                /\ wire'[c][Len(wire'[c])].type = "error"
                /\ \A d \in Conns \ {c} : wire'[d] = wire[d]
          /\ ( /\ tk.kind = "file-delete" /\ tk.pc = "call"
               /\ tk.req.op = "pull-file"
               /\ TwoWith(tk.room.files, tk.req.fileId)
               /\ tasks'[t] # tk )
             => db'[tk.req.roomId].files = Other(tk.room.files, tk.req.fileId)
          /\ ( /\ tk.kind = "note-delete" /\ tk.pc = "call"
               /\ tk.req.op = "pull-note"
               /\ TwoWith(tk.room.notes, tk.req.noteId)
               /\ tasks'[t] # tk )
             => db'[tk.req.roomId].notes = Other(tk.room.notes, tk.req.noteId)
          /\ ( /\ tk.kind \in {"file-delete", "note-delete"}
               /\ EchoStepOf(t) )
             => /\ wire'[c] = wire[c]
                /\ \A d \in Conns :
                     wire'[d] # wire[d] => d \in roomUsers[tk.req.roomId]]_vars

\* nothing is in flight: every handler has returned and every emitted event
\* has been delivered
Quiescent == AllIdle /\ \A c \in Conns : live[c] => wire[c] = <<>>

\* C2: whenever nothing is in flight, every connection that has received its
\* sync displays the files and notes of the stored document of its room.
C2_ViewsConverge ==
  Quiescent =>
    \A c \in Conns :
      (live[c] /\ view[c].synced /\ currentRoom[c] \in DOMAIN db) =>
        /\ view[c].files = db[currentRoom[c]].files
        /\ view[c].notes = db[currentRoom[c]].notes

\* the positions of the events of type `type` this step emits to c
Emitted(c, type) ==
  {i \in (Len(wire[c]) + 1)..Len(wire'[c]) : wire'[c][i].type = type}

\* this step is a step of the handler suspended as task t
StepOf(t) == tasks[t].kind # "idle" /\ tasks'[t] # tasks[t]

\* this step is the last one of the join-room handler suspended as task t,
\* whose last store call was `op`
JoinReturns(t, op) ==
  /\ tasks[t].kind = "join-room"
  /\ tasks[t].pc = "ret"
  /\ tasks[t].req.op = op
  /\ tasks'[t].kind = "idle"

\* C11: a join-room that found no stored document ends with a sync of
\* exactly one file and one note; a join-room that found the document ends
\* with a sync whose files and notes are those of the stored document; and
\* no step of a join-room handler changes the files or notes of a stored
\* document.
C11_SeedSync ==
  [][\A t \in TaskIds :
       LET c == tasks[t].conn
           r == tasks[t].roomId
       IN /\ (tasks[t].kind = "join-room" /\ StepOf(t) /\ r \in DOMAIN db)
             => /\ db'[r].files = db[r].files
                /\ db'[r].notes = db[r].notes
          /\ JoinReturns(t, "create")
             => \E i \in Emitted(c, "sync") :
                  /\ Len(wire'[c][i].files) = 1
                  /\ Len(wire'[c][i].notes) = 1
          /\ JoinReturns(t, "save")
             => \E i \in Emitted(c, "sync") :
                  /\ wire'[c][i].files = db[r].files
                  /\ wire'[c][i].notes = db[r].notes]_vars

\* C12: when a member of a room disconnects, the room's registry entry is
\* removed if it was the only member; otherwise the other member stays in
\* the member set and is sent call-ended and then a users-update listing
\* exactly the remaining member.
C12_DisconnectNotices ==
  [][\A c \in Conns :
       (live[c] /\ ~live'[c]) =>
         \A r \in DOMAIN roomUsers :
           c \in roomUsers[r] =>
             IF roomUsers[r] = {c}
             THEN r \notin DOMAIN roomUsers'
             ELSE /\ r \in DOMAIN roomUsers'
                  /\ roomUsers'[r] = roomUsers[r] \ {c}
                  /\ \A d \in roomUsers[r] \ {c} :
                       live[d] =>
                         wire'[d] = wire[d] \o
                           << [type |-> "call-ended"],
                              [type |-> "users-update",
                               users |-> roomUsers[r] \ {c}] >>]_vars

\* C13: after every step every room key of the registry maps to a non-empty
\* member set, and a step that removes a room key from the registry leaves
\* every stored document as it is.
C13_RegistryNonEmpty ==
  [][/\ \A r \in DOMAIN roomUsers' : roomUsers'[r] # {}
     /\ (\E r \in DOMAIN roomUsers : r \notin DOMAIN roomUsers') => db' = db]_vars

\* the only member of r1 has disconnected: the registry has no r1 and the
\* document of r1 is still stored
C13_Witness ==
  /\ "r1" \notin DOMAIN roomUsers
  /\ "r1" \in DOMAIN db
  /\ \E c \in Conns : ~live[c] /\ currentRoom[c] = "r1"

\* this step is the last one of the join-room handler suspended as task t,
\* none of whose store calls has failed
JoinSucceeds(t) ==
  /\ JoinReturns(t, "create") \/ JoinReturns(t, "save")
  /\ tasks[t].res.status # "error"

\* the users-update the join-room handler of room r emits in this state
UsersUpdate(r) == [type |-> "users-update", users |-> roomUsers[r]]

\* the end of a join-room of connection c for room r: sync goes to c only,
\* then users-update, listing the member set of r (at most 2 connections,
\* c among them), goes to c and to every other connected member of r
SyncThenUsersUpdate(c, r) ==
  /\ r \in DOMAIN roomUsers
  /\ c \in roomUsers[r]
  /\ Cardinality(roomUsers[r]) <= 2
  /\ Len(wire'[c]) = Len(wire[c]) + 2
  /\ SubSeq(wire'[c], 1, Len(wire[c])) = wire[c]
  /\ wire'[c][Len(wire[c]) + 1].type = "sync"
  /\ wire'[c][Len(wire[c]) + 2] = UsersUpdate(r)
  /\ \A d \in Conns \ {c} :
       wire'[d] = IF d \in roomUsers[r] /\ live[d]
                  THEN Append(wire[d], UsersUpdate(r))
                  ELSE wire[d]

C15_RoomFullFrame ==
  [][\A c \in Conns :
       Emitted(c, "room-full") # {} =>
         /\ wire'[c] = Append(wire[c], [type |-> "room-full"])
         /\ \A d \in Conns \ {c} : wire'[d] = wire[d]
         /\ roomUsers' = roomUsers
         /\ currentRoom' = currentRoom
         /\ ioRooms' = ioRooms
         /\ db' = db
         /\ tasks' = tasks]_vars

\* a connection that is in no room has been refused by a room of two members
C15_Witness ==
  \E c \in Conns, r \in RoomKeys :
    /\ live[c]
    /\ wire[c] = <<[type |-> "room-full"]>>
    /\ currentRoom[c] = NoRoom
    /\ r \in DOMAIN roomUsers
    /\ Cardinality(roomUsers[r]) = 2
    /\ r \in DOMAIN db

\* this step is the handler of a file, note, chat, typing, media-toggle or
\* signaling event of connection c
EventOf(c) ==
  \/ \E type \in RelayTypes : Relay(c, type, "d")
  \/ \E file \in NewFiles : FileCreate(c, file)
  \/ \E data \in FileUpdates : FileUpdate(c, data)
  \/ \E data \in FileRenames : FileRename(c, data)
  \/ \E fileId \in FileIds : FileDelete(c, fileId)
  \/ \E note \in NewNotes : NoteCreate(c, note)
  \/ \E data \in NoteUpdates : NoteUpdate(c, data)
  \/ \E data \in NoteRenames : NoteRename(c, data)
  \/ \E noteId \in NoteIds : NoteDelete(c, noteId)

\* C16: the handler of a file, note, chat, typing, media-toggle or signaling
\* event of a connection that has joined no room issues no store call,
\* emits nothing to any connection and leaves the registry and the stored
\* documents as they are.
C16_NotJoinedIgnored ==
  [][\A c \in Conns :
       (currentRoom[c] = NoRoom /\ nEvents' = nEvents + 1 /\ EventOf(c)) =>
         /\ tasks' = tasks
         /\ wire' = wire
         /\ db' = db
         /\ roomUsers' = roomUsers
         /\ ioRooms' = ioRooms]_vars

\* a connection that has joined no room has sent two events while the room
\* r1 has two members: nothing was emitted and no handler is suspended
C16_Witness ==
  /\ currentRoom[3] = NoRoom
  /\ roomUsers = [r \in {"r1"} |-> {1, 2}]
  /\ nEvents = 2
  /\ AllIdle
  /\ \A c \in Conns : wire[c] = <<>>
  /\ db = [r \in {"r1"} |-> TwoItems]

\* the positions of the events of type `type` emitted to connection c
Received(c, type) == {i \in 1..Len(wire[c]) : wire[c][i].type = type}

\* the last element of the non-empty set of positions S
Last(S) == CHOOSE i \in S : \A j \in S : j <= i

\* C17: the other member receives the broadcasts of the writes of a room in
\* the order in which the store applied them.  The store holds the content
\* of the write it applied last, so when only member c has written the
\* content of a file (a note) and every handler has returned, the last
\* file-update (note-update) the other member d received carries the
\* stored content.
C17_EchoOrderIsApplyOrder ==
  \A c, d \in {1, 2} :
    (c # d /\ AllIdle /\ wire[c] = <<>>) =>
      /\ ( /\ Received(d, "file-update") # {}
           /\ \A i \in Received(d, "file-update") :
                wire[d][i].data.content # Undefined )
         => wire[d][Last(Received(d, "file-update"))].data.content
              = db["r1"].files[1].content
      /\ Received(d, "note-update") # {}
         => wire[d][Last(Received(d, "note-update"))].data.content
              = db["r1"].notes[1].content

\* the file-update event `msg` carries a language and no content
LanguageOnly(msg) ==
  msg.data.content = Undefined /\ msg.data.language # Undefined

\* the contents carried by the file-update events emitted to connection c
ContentsReceived(c) ==
  {wire[c][i].data.content : i \in Received(c, "file-update")} \ {Undefined}

Applies(t) ==
  tasks[t].kind # "idle" /\ tasks[t].pc = "call" /\ tasks'[t].pc = "ret"

\* C19: when the store applies a file-update that carries content v for a
\* file of the stored room, the stored content of that file is v afterwards
\* (so after two such writes it is the content of the one applied last), and
\* no other file, no note and no other room is changed.
C19_LastWriteWins ==
  [][\A t \in TaskIds :
       LET req == tasks[t].req
           r == req.roomId
           i == FirstIndex(db[r].files, req.data.fileId)
       IN ( /\ Applies(t)
            /\ tasks[t].kind = "file-update"
            /\ req.data.content \in Contents
            /\ r \in DOMAIN db
            /\ i # 0 )
          => /\ DOMAIN db' = DOMAIN db
             /\ \A k \in DOMAIN db \ {r} : db'[k] = db[k]
             /\ Len(db'[r].files) = Len(db[r].files)
             /\ db'[r].files[i].content = req.data.content
             /\ db'[r].files[i].id = db[r].files[i].id
             /\ db'[r].files[i].name = db[r].files[i].name
             /\ \A j \in 1..Len(db[r].files) :
                  j # i => db'[r].files[j] = db[r].files[j]
             /\ db'[r].notes = db[r].notes]_vars

\* the two members have each written a content to the same file, the two
\* contents differ, both handlers have returned, and the store holds one of
\* the two
C19_Witness ==
  /\ AllIdle
  /\ ContentsReceived(1) # {}
  /\ ContentsReceived(2) # {}
  /\ ContentsReceived(1) # ContentsReceived(2)
  /\ db["r1"].files[1].content \in Contents

\* the ids of the items of the sequence `items`
Ids(items) == {items[i].id : i \in 1..Len(items)}

\* the id the update, rename or delete request `req` is aimed at is not the
\* id of any item of the collection of `doc` it is aimed at
TargetAbsent(doc, req) ==
  CASE req.op \in {"set-file", "name-file"} -> req.data.fileId \notin Ids(doc.files)
    [] req.op = "pull-file" -> req.fileId \notin Ids(doc.files)
    [] req.op \in {"set-note", "name-note"} -> req.data.noteId \notin Ids(doc.notes)
    [] req.op = "pull-note" -> req.noteId \notin Ids(doc.notes)
    [] OTHER -> FALSE

\* the store requests of update, rename and delete events
TargetedOps ==
  {"set-file", "name-file", "pull-file", "set-note", "name-note", "pull-note"}

\* C20: an update, rename or delete whose target id is not in the stored
\* collection leaves the stored files and notes as they are and sends no
\* error; and the store applying the request of an update, rename or delete
\* a second time leaves the files and notes as the first time left them.
C20_AbsentIdNoOp ==
  [][\A t \in TaskIds :
       LET tk == tasks[t]
           r == tk.req.roomId
       IN /\ ( /\ Applies(t) /\ tk.req.op \in TargetedOps /\ r \in DOMAIN db )
             => /\ TargetAbsent(db[r], tk.req)
                     => /\ db'[r].files = db[r].files
                        /\ db'[r].notes = db[r].notes
                /\ StoreApply(db', tk.req)[r].files = db'[r].files
                /\ StoreApply(db', tk.req)[r].notes = db'[r].notes
          /\ ( /\ StepOf(t) /\ tk.kind = "file-delete" /\ tk.pc = "ret"
               /\ tk.req.op = "findOne" /\ tk.res.status = "doc"
               /\ tk.echo.fileId \notin Ids(tk.res.doc.files) )
             => /\ Emitted(tk.conn, "error") = {}
                /\ db' = db
          /\ ( /\ StepOf(t) /\ tk.kind = "note-delete" /\ tk.pc = "ret"
               /\ tk.req.op = "findOne" /\ tk.res.status = "doc"
               /\ tk.echo.noteId \notin Ids(tk.res.doc.notes) )
             => /\ Emitted(tk.conn, "error") = {}
                /\ db' = db
          /\ ( /\ StepOf(t) /\ tk.kind \in MutationKinds /\ tk.pc = "ret"
               /\ tk.req.op \in TargetedOps )
             => Emitted(tk.conn, "error") = {}]_vars

\* C21: no two files of a stored room have the same id, and no two notes of
\* a stored room have the same id.
C21_IdsUnique ==
  \A r \in DOMAIN db :
    /\ \A i, j \in 1..Len(db[r].files) :
         db[r].files[i].id = db[r].files[j].id => i = j
    /\ \A i, j \in 1..Len(db[r].notes) :
         db[r].notes[i].id = db[r].notes[j].id => i = j

\* the cleanup job starts in this step as task t
Starts(t) == tasks[t].kind = "idle" /\ tasks'[t].kind = "cleanup"

\* C22: the cleanup job that starts at time T asks the store to delete the
\* rooms whose lastActivity is earlier than T - 24 h; when the store executes
\* it, exactly those rooms are deleted (25 hours idle: deleted; 24 hours or
\* less: kept), every other room is left as it was, and executing the same
\* deletion once more would delete nothing.
C22_SweepExact ==
  [][\A t \in TaskIds :
       /\ Starts(t) => tasks'[t].req.cutoff = now - 24
       /\ (Applies(t) /\ tasks[t].kind = "cleanup") =>
            LET cutoff == tasks[t].req.cutoff IN
            /\ DOMAIN db' = {r \in DOMAIN db : db[r].lastActivity >= cutoff}
            /\ \A r \in DOMAIN db' : db'[r] = db[r]
            /\ StoreApply(db', tasks[t].req) = db'
    ]_vars

\* the store has executed a cleanup started at hour 25: r1, idle since
\* hour 0, is gone; r2, whose lastActivity is hour 24, is stored
C22_Witness ==
  \E t \in TaskIds :
    /\ tasks[t].kind = "cleanup"
    /\ tasks[t].pc = "ret"
    /\ tasks[t].req.cutoff = 1
    /\ "r1" \in DOMAIN roomUsers
    /\ "r1" \notin DOMAIN db
    /\ "r2" \in DOMAIN db
    /\ db["r2"].lastActivity = 24

\* the store call of task t, executed in this step, changes the files or
\* the notes of room r, or is the save() of a join of the existing room r
Changes(t, r) ==
  /\ Applies(t)
  /\ tasks[t].kind # "cleanup"
  /\ tasks[t].req.roomId = r
  /\ r \in DOMAIN db
  /\ r \in DOMAIN db'
  /\ \/ db'[r].files # db[r].files
     \/ db'[r].notes # db[r].notes
     \/ tasks[t].req.op = "save"

\* C23: a store call that changes the files or notes of a room, and the
\* save of a join of an existing room, set the room's lastActivity to the
\* time the handler read; the lastActivity of a stored room never decreases
\* and its createdAt never changes; a room the cleanup job deletes has a
\* lastActivity more than 24 hours in the past.
C23_ActivityKept ==
  [][\A r \in DOMAIN db :
       /\ \A t \in TaskIds :
            Changes(t, r) =>
              /\ db'[r].lastActivity = tasks[t].req.at
              /\ tasks[t].req.at <= now
              /\ tasks[t].req.at >= now - MaxDrift
       /\ r \in DOMAIN db' =>
            /\ db'[r].createdAt = db[r].createdAt
            /\ db'[r].lastActivity >= db[r].lastActivity
       /\ r \notin DOMAIN db' => db[r].lastActivity < now - 24
    ]_vars

\* the store call of task t is rejected in this step
Rejected(t) ==
  /\ tasks[t].kind # "idle"
  /\ tasks[t].pc = "call"
  /\ tasks'[t].pc = "ret"
  /\ tasks'[t].res.status = "error"

\* the handler of task t resumes in this step from a rejected store call
Catches(t) ==
  /\ StepOf(t)
  /\ tasks[t].pc = "ret"
  /\ tasks[t].res.status = "error"

\* C24: when a store call of a file or note handler is rejected, the stored
\* documents are unchanged, the handler ends without emitting anything, the
\* registry is unchanged, and the connection still has the current room
\* that the handlers of its later events test.
C24_FailedMutationDropped ==
  [][\A t \in TaskIds :
       /\ (Rejected(t) /\ tasks[t].kind \in MutationKinds) => db' = db
       /\ (Catches(t) /\ tasks[t].kind \in MutationKinds) =>
            /\ tasks'[t] = Idle
            /\ wire' = wire
            /\ db' = db
            /\ roomUsers' = roomUsers
            /\ ioRooms' = ioRooms
            /\ currentRoom' = currentRoom
            /\ currentRoom'[tasks[t].conn] # NoRoom
            /\ live' = live
    ]_vars

\* a member's store call has been rejected while another member of its room
\* is connected, and a second event of the same member, whose call the store
\* has executed, is about to be emitted
C24_Witness ==
  \E t, u \in TaskIds :
    /\ tasks[t].kind \in MutationKinds
    /\ tasks[t].pc = "ret"
    /\ tasks[t].res.status = "error"
    /\ EchoTo(tasks[t].conn) # {}
    /\ tasks[u].kind \in MutationKinds
    /\ tasks[u].conn = tasks[t].conn
    /\ tasks[u].pc = "ret"
    /\ tasks[u].res.status = "ok"

\* the event a member receives when connection c has sent the relay event
\* `type` with payload "d"
Relayed(c, type) ==
  CASE type = "call-request" -> [type |-> type, data |-> c]
    [] type \in {"chat-message", "video-toggle", "audio-toggle",
                 "screen-share-toggle", "offer", "answer", "ice-candidate"} ->
         [type |-> type, data |-> "d"]
    [] OTHER -> [type |-> type]

\* every event emitted in this step is an event `type`
OnlyEmits(type) ==
  \A d \in Conns :
    /\ Len(wire'[d]) >= Len(wire[d])
    /\ \A i \in (Len(wire[d]) + 1)..Len(wire'[d]) : wire'[d][i].type = type

\* C25: a chat, typing, media-toggle or signaling event of a connection whose
\* current room is r is emitted once to every other connected member of r,
\* with the payload received (call-request with the sender's connection id,
\* the typing and call-accepted / -rejected / -ended events without one), and
\* to nobody else; the store, the registry and the current rooms are
\* unchanged.
C25_RelayFrame ==
  [][\A c \in Conns, type \in RelayTypes :
       (nEvents' = nEvents + 1 /\ currentRoom[c] # NoRoom
          /\ OnlyEmits(type) /\ Relay(c, type, "d")) =>
         LET r == currentRoom[c]
             to == {d \in roomUsers[r] \ {c} : live[d]}
         IN /\ wire' = [d \in Conns |->
                          IF d \in to
                          THEN Append(wire[d], Relayed(c, type))
                          ELSE wire[d]]
            /\ db' = db
            /\ roomUsers' = roomUsers
            /\ currentRoom' = currentRoom
    ]_vars

\* member 2 of r1 has received the call-request of member 1 with the id of
\* member 1, and a chat message with its payload; neither member 1 nor
\* connection 3 has received anything
C25_Witness ==
  /\ Len(wire[2]) = 2
  /\ wire[2][1].type = "call-request"
  /\ wire[2][1].data = 1
  /\ wire[2][2].type = "chat-message"
  /\ wire[2][2].data = "d"
  /\ wire[1] = <<>>
  /\ wire[3] = <<>>
  /\ currentRoom[3] = NoRoom

\* the room the handler suspended as task t works on
RoomOf(t) ==
  IF tasks[t].kind = "join-room" THEN tasks[t].roomId ELSE tasks[t].req.roomId

\* C26: the handlers of a room run one at a time: while a handler of room r
\* is suspended at a store call, no other handler of r has started.
C26_Serialized ==
  \A t, u \in TaskIds :
    (t # u /\ tasks[t].kind # "idle" /\ tasks[t].pc = "call"
       /\ tasks[u].kind # "idle") =>
      RoomOf(t) # RoomOf(u)

Unmatched(t) ==
  LET req == tasks[t].req
      r == req.roomId
  IN \/ r \notin DOMAIN db
     \/ TargetAbsent(IF req.op \in {"pull-file", "pull-note"}
                     THEN tasks[t].room ELSE db[r], req)

\* C28: an update, rename or delete is broadcast only if its store call
\* matched the room and the item it was aimed at: a handler whose call
\* matched no stored room or no item of that id emits nothing.
C28_BroadcastOnlyApplied ==
  [][\A t \in TaskIds :
       ( /\ StepOf(t)
         /\ tasks[t].kind \in MutationKinds
         /\ tasks[t].pc = "ret"
         /\ tasks[t].req.op \in TargetedOps
         /\ Unmatched(t) ) => wire' = wire
    ]_vars

\* the most recent admitted join-room of connection c has ended with a sync:
\* the last user-id c received is followed by a sync
SyncedJoin(c) ==
  /\ Received(c, "user-id") # {}
  /\ \E i \in Received(c, "sync") : i > Last(Received(c, "user-id"))

\* C29: while a room has a connected member whose join ended with a sync,
\* the store holds a document for the room.
C29_MemberHasDocument ==
  \A c \in Conns, r \in RoomKeys :
    ( /\ live[c]
      /\ currentRoom[c] = r
      /\ r \in DOMAIN roomUsers
      /\ c \in roomUsers[r]
      /\ SyncedJoin(c) ) => r \in DOMAIN db

====
